---- MODULE Spec2Model ----
(***************************************************************************)
(* Model of NMTVectorizer ("Machine translation Transformer/vectorizers.py").*)
(*                                                                         *)
(* A vocabulary is the record [itos, default_index]: itos is the ordered    *)
(* token list of torchtext's Vocab (a token's index is its 0-based position *)
(* in itos) and default_index is the index returned for a token that is not *)
(* in itos.  A text is represented by the tuple of whitespace-separated     *)
(* words that text.split() yields.  A 1-D tensor is a sequence (tensor      *)
(* position p is sequence position p+1), a 2-D tensor a sequence of rows.   *)
(* The outcome of a call is [status, value]; status "RuntimeError" is the   *)
(* shape error torch raises on a mismatching slice assignment.  The object  *)
(* is used synchronously: a call is recorded in call and result until it    *)
(* has returned, and the next call starts after that.                       *)
(***************************************************************************)
EXTENDS Integers, Sequences, FiniteSets, TLC

VARIABLES
    source_vocab,   \* self.source_vocab
    target_vocab,   \* self.target_vocab
    max_words,      \* self.max_words
    built,          \* the constructor that made the object
    call,           \* the last call: [op, args]
    result          \* its outcome: [status, value]

vars == <<source_vocab, target_vocab, max_words, built, call, result>>

\* ------------------------------------------------------------------ bounds
MaxTokens == 2      \* longest token list handed to the constructor
MaxText   == 2      \* most words in a text
MaxWords  == 1      \* largest max_words
MaxPairs  == 1      \* most pairs handed to from_pairs
MaxVector == 1      \* longest tensor handed to create_masks directly
MaxSize   == 3      \* largest size handed to nopeak_mask directly

\* --------------------------------------------------------------- constants
UNK == "<unk>"
PAD == "<pad>"
SOS == "<sos>"
EOS == "<eos>"
source_specials == <<UNK, PAD>>
target_specials == <<UNK, PAD, SOS, EOS>>

\* tokens the constructor's token lists are drawn from
Tokens == {UNK, PAD, "a"}
\* words the texts are made of ("c" is in no constructor token list)
Words == {"a", "c"}

SeqsUpTo(S, n) == UNION {[1..k -> S] : k \in 0..n}

Range(s) == {s[i] : i \in 1..Len(s)}

Min(a, b) == IF a <= b THEN a ELSE b

\* -------------------------------------------------------------- vocabulary
\* no default index has been set
NoIndex == 0 - 1

\* keys of OrderedDict([(token, 1) for token in tokens]): first occurrences, in order
RECURSIVE OrderedKeys(_)
OrderedKeys(tokens) ==
    IF tokens = <<>> THEN <<>>
    ELSE LET front == OrderedKeys(SubSeq(tokens, 1, Len(tokens) - 1))
             last  == tokens[Len(tokens)]
         IN IF last \in Range(front) THEN front ELSE Append(front, last)

\* torchtext.vocab.vocab(ordered_dict), every frequency being 1 >= min_freq
vocab(tokens) == [itos |-> OrderedKeys(tokens), default_index |-> NoIndex]

\* Vocab.__contains__
Contains(v, token) == token \in Range(v.itos)

\* Vocab.__getitem__: the token's index, the default index when absent
Lookup(v, token) ==
    IF Contains(v, token)
    THEN (CHOOSE i \in 1..Len(v.itos) : v.itos[i] = token) - 1
    ELSE v.default_index

\* insert_token that appends the token whatever the index
insert_token_append(v, token, index) ==
    [v EXCEPT !.itos = v.itos \o <<token>>]

\* Vocab.insert_token(token, index): later tokens shift up by one
insert_token(v, token, index) ==
    [v EXCEPT !.itos = SubSeq(v.itos, 1, index) \o <<token>>
                       \o SubSeq(v.itos, index + 1, Len(v.itos))]

\* Vocab.set_default_index
set_default_index(v, index) == [v EXCEPT !.default_index = index]

\* Vocab.get_itos
get_itos(v) == v.itos

\* for special in specials: if special not in v: v.insert_token(special, 0)
RECURSIVE InsertSpecials(_, _)
InsertSpecials(v, specials) ==
    IF specials = <<>> THEN v
    ELSE LET special == Head(specials)
             w == IF ~Contains(v, special) THEN insert_token(v, special, 0) ELSE v
         IN InsertSpecials(w, Tail(specials))

\* ------------------------------------------------------------- constructor
\* NMTVectorizer.__init__
NMTVectorizer(source_tokens, target_tokens, mw) ==
    LET sv0 == InsertSpecials(vocab(source_tokens), source_specials)
        sv  == set_default_index(sv0, Lookup(sv0, UNK))
        tv0 == InsertSpecials(vocab(target_tokens), target_specials)
        tv  == set_default_index(tv0, Lookup(sv, UNK))
    IN [source_vocab |-> sv, target_vocab |-> tv, max_words |-> mw]

\* Counter after counter[word] += 1 for each word: <<key, count>> in insertion order
RECURSIVE Count(_, _)
Count(counter, words) ==
    IF words = <<>> THEN counter
    ELSE LET word == Head(words)
             next == IF \E i \in 1..Len(counter) : counter[i][1] = word
                     THEN [i \in 1..Len(counter) |->
                              IF counter[i][1] = word
                              THEN <<word, counter[i][2] + 1>> ELSE counter[i]]
                     ELSE Append(counter, <<word, 1>>)
         IN Count(next, Tail(words))

\* Counter.keys()
Keys(counter) == [i \in 1..Len(counter) |-> counter[i][1]]

RECURSIVE CountPairs(_, _, _)
CountPairs(counter, pairs, side) ==
    IF pairs = <<>> THEN counter
    ELSE CountPairs(Count(counter, Head(pairs)[side]), Tail(pairs), side)

\* NMTVectorizer.from_pairs
from_pairs(pairs, mw) ==
    LET source_counter == CountPairs(<<>>, pairs, 1)
        target_counter == CountPairs(<<>>, pairs, 2)
    IN NMTVectorizer(Keys(source_counter), Keys(target_counter), mw)

\* ----------------------------------------------------------------- methods
Ok(value) == [status |-> "ok", value |-> value]
\* torch's shape mismatch on vector[:len(indices)] = indeces_tensor
RuntimeError == [status |-> "RuntimeError", value |-> <<>>]

\* torch.full((length,), fill_value)
full(length, fill_value) == [p \in 1..length |-> fill_value]

\* vector[:n] = tensor.  The slice has Min(n, Len(vector)) slots; a tensor of
\* exactly one element broadcasts to a slice of any size, any other size
\* mismatch raises.
SliceAssign(vector, n, tensor) ==
    LET slice == Min(n, Len(vector))
    IN IF Len(tensor) = slice
       THEN Ok([p \in 1..Len(vector) |-> IF p <= slice THEN tensor[p] ELSE vector[p]])
       ELSE IF Len(tensor) = 1
            THEN Ok([p \in 1..Len(vector) |-> IF p <= slice THEN tensor[1] ELSE vector[p]])
            ELSE RuntimeError

\* NMTVectorizer._vectorize
_vectorize(self, indices, vector_length) ==
    LET length    == IF vector_length < 0 THEN Len(indices) ELSE vector_length
        pad_value == Lookup(self.source_vocab, PAD)
        vector    == full(length, pad_value)
    IN SliceAssign(vector, Len(indices), indices)

\* NMTVectorizer._get_source_indices
_get_source_indices(self, text) ==
    [p \in 1..Len(text) |-> Lookup(self.source_vocab, text[p])]

\* _get_target_indices that puts the end token in front of y
_get_target_indices_eos_first(self, text) ==
    LET indices == [p \in 1..Len(text) |-> Lookup(self.target_vocab, text[p])]
    IN << <<Lookup(self.target_vocab, SOS)>> \o indices,
          <<Lookup(self.target_vocab, EOS)>> \o indices >>

\* NMTVectorizer._get_target_indices: <<x_indices, y_indices>>
_get_target_indices(self, text) ==
    LET indices == [p \in 1..Len(text) |-> Lookup(self.target_vocab, text[p])]
    IN << <<Lookup(self.target_vocab, SOS)>> \o indices,
          indices \o <<Lookup(self.target_vocab, EOS)>> >>

\* torch.triu(torch.ones((size, size)), diagonal): entries below the
\* diagonal-th diagonal are zeroed
triu_ones(size, diagonal) ==
    [i \in 1..size |-> [j \in 1..size |-> IF j - i >= diagonal THEN 1 ELSE 0]]

\* nopeak_mask built with diagonal=0: the diagonal is masked too
nopeak_mask_diagonal0(size) ==
    LET np_mask == triu_ones(size, 0)
    IN [i \in 1..size |-> [j \in 1..size |-> np_mask[i][j] = 0]]

\* NMTVectorizer.nopeak_mask
nopeak_mask(size) ==
    LET np_mask == triu_ones(size, 1)
    IN [i \in 1..size |-> [j \in 1..size |-> np_mask[i][j] = 0]]

\* (vector != pad).unsqueeze(0): one row
PadMask(vector, pad) == << [p \in 1..Len(vector) |-> vector[p] # pad] >>

\* NMTVectorizer.create_masks with target_x_vector=None
create_source_mask(self, source_vector) ==
    PadMask(source_vector, Lookup(self.source_vocab, PAD))

\* NMTVectorizer.create_masks with a target_x_vector: <<source_mask, target_mask>>
create_masks(self, source_vector, target_x_vector) ==
    LET source_mask == create_source_mask(self, source_vector)
        target_pad  == Lookup(self.target_vocab, PAD)
        target_row  == PadMask(target_x_vector, target_pad)
        size        == Len(target_x_vector)
        np_mask     == nopeak_mask(size)
        target_mask == [i \in 1..size |-> [j \in 1..size |->
                           target_row[1][j] /\ np_mask[i][j]]]
    IN <<source_mask, target_mask>>

\* NMTVectorizer.vectorize
vectorize(self, source_text, target_text) ==
    LET source_vector_length == self.max_words
        target_vector_length == self.max_words + 1
        source_indices == _get_source_indices(self, source_text)
        source_vector  == _vectorize(self, source_indices, source_vector_length)
        target_indices == _get_target_indices(self, target_text)
        target_x_vector == _vectorize(self, target_indices[1], target_vector_length)
        target_y_vector == _vectorize(self, target_indices[2], target_vector_length)
    IN IF source_vector.status # "ok" THEN source_vector
       ELSE IF target_x_vector.status # "ok" THEN target_x_vector
       ELSE IF target_y_vector.status # "ok" THEN target_y_vector
       ELSE LET masks == create_masks(self, source_vector.value, target_x_vector.value)
            IN Ok([source_vector   |-> source_vector.value,
                   source_mask     |-> masks[1],
                   target_x_vector |-> target_x_vector.value,
                   target_y_vector |-> target_y_vector.value,
                   target_mask     |-> masks[2]])

\* NMTVectorizer.vectorize_source
vectorize_source(self, source_text) ==
    _vectorize(self, _get_source_indices(self, source_text), self.max_words)

\* to_serializable that writes the source tokens under both keys
to_serializable_source_twice(self) ==
    [source_tokens |-> get_itos(self.source_vocab),
     target_tokens |-> get_itos(self.source_vocab),
     max_words     |-> self.max_words]

\* NMTVectorizer.to_serializable
to_serializable(self) ==
    [source_tokens |-> get_itos(self.source_vocab),
     target_tokens |-> get_itos(self.target_vocab),
     max_words     |-> self.max_words]

\* NMTVectorizer.from_serializable
from_serializable(contents) ==
    NMTVectorizer(contents.source_tokens, contents.target_tokens, contents.max_words)

\* ------------------------------------------------------------------- state
\* the vectorizer object
Self == [source_vocab |-> source_vocab, target_vocab |-> target_vocab,
         max_words |-> max_words]

TokenLists == SeqsUpTo(Tokens, MaxTokens)
Texts      == SeqsUpTo(Words, MaxText)
PairLists  == SeqsUpTo(Texts \X Texts, MaxPairs)
\* tensors handed to a direct create_masks call
PadLike    == {0, 2}
Vectors    == SeqsUpTo(PadLike, MaxVector)

\* the object a constructor call leaves behind
Construct(v, op, args) ==
    /\ source_vocab = v.source_vocab
    /\ target_vocab = v.target_vocab
    /\ max_words = v.max_words
    /\ built = op
    /\ call = [op |-> op, args |-> args]
    /\ result = Ok(<<>>)

Init ==
    \E mw \in 0..MaxWords :
        \/ \E st \in TokenLists, tt \in TokenLists :
               Construct(NMTVectorizer(st, tt, mw), "__init__", <<st, tt, mw>>)
        \/ \E pairs \in PairLists :
               Construct(from_pairs(pairs, mw), "from_pairs", <<pairs, mw>>)

\* no call is under way: the last one has returned to its caller
Idle == [op |-> "idle", args |-> <<>>]

\* a method call that only reads the object; calls are synchronous, one
\* starts when the one before has returned
Reads(op, args, outcome) ==
    /\ call = Idle
    /\ call' = [op |-> op, args |-> args]
    /\ result' = outcome
    /\ UNCHANGED <<source_vocab, target_vocab, max_words, built>>

\* vectorize that adds the unknown source words to the source vocabulary
Vectorize_learning(source_text, target_text) ==
    /\ call = Idle
    /\ call' = [op |-> "vectorize", args |-> <<source_text, target_text>>]
    /\ result' = vectorize(Self, source_text, target_text)
    /\ source_vocab' = [source_vocab EXCEPT !.itos =
           OrderedKeys(source_vocab.itos \o source_text)]
    /\ UNCHANGED <<target_vocab, max_words, built>>

Vectorize(source_text, target_text) ==
    Reads("vectorize", <<source_text, target_text>>,
            vectorize(Self, source_text, target_text))

VectorizeSource(source_text) ==
    Reads("vectorize_source", <<source_text>>, vectorize_source(Self, source_text))

CreateSourceMask(source_vector) ==
    Reads("create_masks", <<source_vector>>,
            Ok(create_source_mask(Self, source_vector)))

CreateMasks(source_vector, target_x_vector) ==
    Reads("create_masks", <<source_vector, target_x_vector>>,
            Ok(create_masks(Self, source_vector, target_x_vector)))

NopeakMask(size) ==
    Reads("nopeak_mask", <<size>>, Ok(nopeak_mask(size)))

ToSerializable ==
    Reads("to_serializable", <<>>, Ok(to_serializable(Self)))

\* NMTVectorizer.from_serializable(contents), contents being the dictionary
\* to_serializable has just returned: the new object replaces the old one
FromSerializable ==
    /\ call.op = "to_serializable"
    /\ LET v == from_serializable(result.value)
       IN /\ source_vocab' = v.source_vocab
          /\ target_vocab' = v.target_vocab
          /\ max_words' = v.max_words
    /\ built' = "from_serializable"
    /\ call' = [op |-> "from_serializable", args |-> <<result.value>>]
    /\ result' = Ok(<<>>)

\* the call (a constructor call included) hands its result to the caller
Return ==
    /\ call # Idle
    /\ call' = Idle
    /\ result' = Ok(<<>>)
    /\ UNCHANGED <<source_vocab, target_vocab, max_words, built>>

Next ==
    \/ \E s \in Texts, t \in Texts : Vectorize(s, t)
    \/ \E s \in Texts : VectorizeSource(s)
    \/ \E sv \in Vectors : CreateSourceMask(sv)
    \/ \E sv \in Vectors, tv \in Vectors : CreateMasks(sv, tv)
    \/ \E size \in 0..MaxSize : NopeakMask(size)
    \/ ToSerializable
    \/ FromSerializable
    \/ Return

Spec == Init /\ [][Next]_vars

\* ------------------------------------------------------------------ claims
ReadOnlyOps == {"vectorize", "vectorize_source", "create_masks",
                "nopeak_mask", "to_serializable"}

\* index p (0-based) of a tensor
At(vector, p) == vector[p + 1]

\* the special tokens' indices in a vocabulary
SpecialIndices(v, specials) == {Lookup(v, specials[k]) : k \in 1..Len(specials)}

\* a tensor without its trailing run of pad values
RECURSIVE Strip(_, _)
Strip(vector, pad) ==
    IF vector # <<>> /\ vector[Len(vector)] = pad
    THEN Strip(SubSeq(vector, 1, Len(vector) - 1), pad)
    ELSE vector

\* the index is a position of the vocabulary and its token is <unk>
IsUnkIndex(v, index) ==
    /\ index \in 0..(Len(v.itos) - 1)
    /\ v.itos[index + 1] = UNK

\* C1: in the texts of a vectorize call, every word that is absent from the
\* vocabulary of its side is mapped to that vocabulary's own <unk> index, in
\* the source indices and in both target index sequences, and that index is
\* a position of the vocabulary holding <unk>.
C1_UnknownMapsToOwnUnk ==
    call.op = "vectorize" =>
        LET source_text == call.args[1]
            target_text == call.args[2]
            si == _get_source_indices(Self, source_text)
            xy == _get_target_indices(Self, target_text)
        IN /\ \A p \in 1..Len(source_text) :
                  ~Contains(source_vocab, source_text[p]) =>
                      /\ si[p] = Lookup(source_vocab, UNK)
                      /\ IsUnkIndex(source_vocab, si[p])
           /\ \A p \in 1..Len(target_text) :
                  ~Contains(target_vocab, target_text[p]) =>
                      /\ xy[1][p + 1] = Lookup(target_vocab, UNK)
                      /\ xy[2][p] = Lookup(target_vocab, UNK)
                      /\ IsUnkIndex(target_vocab, xy[2][p])

\* C2: when vectorize returns for a pair with at most max_words words on each
\* side, target_mask[i][j] is true exactly when j <= i and j < t + 1, t being
\* the number of target words: padded slots are masked out in every row.
C2_MaskHidesExactlyPadding ==
    (/\ call.op = "vectorize"
     /\ Len(call.args[1]) <= max_words
     /\ Len(call.args[2]) <= max_words) =>
        /\ result.status = "ok"
        /\ LET t == Len(call.args[2])
               target_mask == result.value.target_mask
           IN \A i \in 0..max_words, j \in 0..max_words :
                  At(At(target_mask, i), j) <=> (j <= i /\ j < t + 1)

\* C3: for the index sequences of a vectorize call's texts (source, target x
\* and target y; every word of a text is an ordinary word) and every longer
\* length, _vectorize followed by stripping the trailing padding values gives
\* back the index sequence.
C3_PaddingRoundTrip ==
    call.op = "vectorize" =>
        LET xy == _get_target_indices(Self, call.args[2])
            sequences == {_get_source_indices(Self, call.args[1]), xy[1], xy[2]}
            pad_value == Lookup(source_vocab, PAD)
        IN \A indices \in sequences :
               \A length \in (Len(indices) + 1)..(Len(indices) + 2) :
                   LET vector == _vectorize(Self, indices, length)
                   IN /\ vector.status = "ok"
                      /\ Strip(vector.value, pad_value) = indices

\* C4: for an object built by from_pairs and a pair with s <= max_words source
\* words and t <= max_words target words, vectorize returns source_vector =
\* source indices then source <pad> indices up to max_words, target_x_vector
\* = <sos>, target indices, target <pad> indices up to max_words + 1, and
\* target_y_vector = target indices, <eos>, target <pad> indices.
C4_Layout ==
    (/\ built = "from_pairs"
     /\ call.op = "vectorize"
     /\ Len(call.args[1]) <= max_words
     /\ Len(call.args[2]) <= max_words) =>
        /\ result.status = "ok"
        /\ LET s  == Len(call.args[1])
               t  == Len(call.args[2])
               si == [p \in 1..s |-> Lookup(source_vocab, call.args[1][p])]
               ti == [p \in 1..t |-> Lookup(target_vocab, call.args[2][p])]
               source_pad == Lookup(source_vocab, PAD)
               target_pad == Lookup(target_vocab, PAD)
           IN /\ result.value.source_vector
                     = si \o [p \in 1..(max_words - s) |-> source_pad]
              /\ result.value.target_x_vector
                     = <<Lookup(target_vocab, SOS)>> \o ti
                       \o [p \in 1..(max_words - t) |-> target_pad]
              /\ result.value.target_y_vector
                     = ti \o <<Lookup(target_vocab, EOS)>>
                       \o [p \in 1..(max_words - t) |-> target_pad]

\* C5: a vectorize or vectorize_source call whose source text has more than
\* max_words words, and a vectorize call whose target text has, ends in the
\* sequence-too-long error, not in the size-mismatch fault nor with a vector.
C5_OversizedIsSequenceTooLong ==
    (\/ /\ call.op \in {"vectorize", "vectorize_source"}
        /\ Len(call.args[1]) > max_words
     \/ /\ call.op = "vectorize"
        /\ Len(call.args[2]) > max_words) =>
        result.status = "SequenceTooLong"

\* C6: the object from_serializable builds from what to_serializable returned
\* has the same vocabularies (tokens, indices and default indices) and the
\* same max_words as the serialized object, and vectorize returns the same
\* vectors and masks on both for every pair of texts.
C6_SerializeRoundTrip ==
    [][call'.op = "from_serializable" =>
          /\ source_vocab' = source_vocab
          /\ target_vocab' = target_vocab
          /\ max_words' = max_words
          /\ \A s \in Texts, t \in Texts :
                 vectorize(Self, s, t)' = vectorize(Self, s, t)]_vars

C6_Witness ==
    /\ call.op = "from_serializable"
    /\ "a" \in Range(source_vocab.itos)
    /\ max_words > 0

\* the token list a constructor call handed to __init__ for one side
CtorTokens(side) ==
    CASE call.op = "__init__" -> call.args[side]
      [] call.op = "from_pairs" -> Keys(CountPairs(<<>>, call.args[1], side))
      [] call.op = "from_serializable" ->
             IF side = 1 THEN call.args[1].source_tokens
             ELSE call.args[1].target_tokens

\* the object the constructor call of this state builds when repeated
Rebuilt ==
    CASE call.op = "__init__" -> NMTVectorizer(call.args[1], call.args[2], call.args[3])
      [] call.op = "from_pairs" -> from_pairs(call.args[1], call.args[2])
      [] call.op = "from_serializable" -> from_serializable(call.args[1])

\* tokens one-to-one onto 0..n-1, distinct special indices, same on rebuild
WellFormed(v, specials) ==
    /\ \A p, q \in 1..Len(v.itos) : v.itos[p] = v.itos[q] => p = q
    /\ \A p \in 1..Len(v.itos) : Lookup(v, v.itos[p]) = p - 1
    /\ \A k, l \in 1..Len(specials) :
           Lookup(v, specials[k]) = Lookup(v, specials[l]) => k = l

\* the special tokens hold the lowest indices
SpecialsLowest(v, specials) ==
    SpecialIndices(v, specials) = 0..(Len(specials) - 1)

\* no token that is not a special of the side stands before a special
SpecialsLead(tokens, specials) ==
    \A p, q \in 1..Len(tokens) :
        (p < q /\ tokens[q] \in Range(specials)) => tokens[p] \in Range(specials)

\* C7 as stated: after construction from any token lists each vocabulary maps
\* its tokens one-to-one onto 0..n-1 and its special tokens have pairwise
\* distinct indices that are the lowest indices 0..k-1, the same on a
\* repeated construction.
C7_SpecialsAlwaysLowest ==
    call.op \in {"__init__", "from_pairs", "from_serializable"} =>
        /\ WellFormed(source_vocab, source_specials)
        /\ WellFormed(target_vocab, target_specials)
        /\ SpecialsLowest(source_vocab, source_specials)
        /\ SpecialsLowest(target_vocab, target_specials)
        /\ Rebuilt = Self

\* C7 amended: as above, but the special tokens are the lowest indices 0..k-1
\* of a side only when, in that side's token list, no other token stands
\* before a special token.
C7_SpecialsLowestWhenLeading ==
    call.op \in {"__init__", "from_pairs", "from_serializable"} =>
        /\ WellFormed(source_vocab, source_specials)
        /\ WellFormed(target_vocab, target_specials)
        /\ SpecialsLead(CtorTokens(1), source_specials)
               => SpecialsLowest(source_vocab, source_specials)
        /\ SpecialsLead(CtorTokens(2), target_specials)
               => SpecialsLowest(target_vocab, target_specials)
        /\ Rebuilt = Self

C7_Witness ==
    /\ call.op = "__init__"
    /\ call.args[1] = <<UNK, "a">>
    /\ call.args[2] = <<"a", "a">>
    /\ source_vocab.itos = <<PAD, UNK, "a">>

\* C8: nopeak_mask(n)[i][j] is true exactly when j <= i: the diagonal is true
\* and off the diagonal exactly one of [i][j] and [j][i] is true.
C8_NopeakLowerTriangular ==
    call.op = "nopeak_mask" =>
        LET n == call.args[1]
            mask == result.value
        IN /\ result.status = "ok"
           /\ Len(mask) = n
           /\ \A i \in 0..(n - 1) :
                  /\ Len(At(mask, i)) = n
                  /\ At(At(mask, i), i)
                  /\ \A j \in 0..(n - 1) :
                         /\ At(At(mask, i), j) <=> j <= i
                         /\ i # j => (At(At(mask, i), j) <=> ~At(At(mask, j), i))

C8_Witness ==
    /\ call.op = "nopeak_mask"
    /\ call.args[1] = MaxSize
    /\ result.status = "ok"

\* what the recorded call returns on the object as it is now
Redo ==
    CASE call.op = "vectorize" -> vectorize(Self, call.args[1], call.args[2])
      [] call.op = "vectorize_source" -> vectorize_source(Self, call.args[1])
      [] call.op = "create_masks" /\ Len(call.args) = 1 ->
             Ok(create_source_mask(Self, call.args[1]))
      [] call.op = "create_masks" /\ Len(call.args) = 2 ->
             Ok(create_masks(Self, call.args[1], call.args[2]))
      [] call.op = "nopeak_mask" -> Ok(nopeak_mask(call.args[1]))
      [] call.op = "to_serializable" -> Ok(to_serializable(Self))

\* C9: a call to vectorize, vectorize_source, create_masks, nopeak_mask or
\* to_serializable, failing or not, leaves source_vocab, target_vocab and
\* max_words as they were, and the same call on the object it leaves behind
\* returns the same outcome.
C9_CallsOnlyRead ==
    /\ [][call'.op \in ReadOnlyOps =>
             /\ source_vocab' = source_vocab
             /\ target_vocab' = target_vocab
             /\ max_words' = max_words]_vars
    /\ [](call.op \in ReadOnlyOps => Redo = result)

C9_Witness ==
    /\ call.op = "vectorize"
    /\ result.status = "RuntimeError"
    /\ "c" \in Range(call.args[1])

\* C10: for the target text of a vectorize call, t words long,
\* _get_target_indices returns x and y of length t + 1 with x[0] = <sos>,
\* y[t] = <eos> and y[i] = x[i+1] for i < t; when the call returns vectors
\* the same holds of target_x_vector and target_y_vector.
C10_TeacherForcingShift ==
    call.op = "vectorize" =>
        LET t  == Len(call.args[2])
            xy == _get_target_indices(Self, call.args[2])
            Shifted(x, y) ==
                /\ At(x, 0) = Lookup(target_vocab, SOS)
                /\ At(y, t) = Lookup(target_vocab, EOS)
                /\ \A i \in 0..(t - 1) : At(y, i) = At(x, i + 1)
        IN /\ Len(xy[1]) = t + 1
           /\ Len(xy[2]) = t + 1
           /\ Shifted(xy[1], xy[2])
           /\ (t <= max_words /\ result.status = "ok") =>
                  /\ Len(result.value.target_x_vector) = max_words + 1
                  /\ Len(result.value.target_y_vector) = max_words + 1
                  /\ Shifted(result.value.target_x_vector,
                             result.value.target_y_vector)

C10_Witness ==
    /\ call.op = "vectorize"
    /\ result.status = "ok"
    /\ Len(call.args[2]) = 1
    /\ max_words > 0

====
